---- MODULE Spec2Model ----
(***************************************************************************)
(* Model of the MNSTR gacha dashboard: the distribution analytics engine   *)
(* (probabilityScale, computeMetrics, buildProfitCurve of the interactive  *)
(* app and the inline computation of the CLI's calculateExpectedValue)     *)
(* and the interactive loader (App.loadData).                              *)
(*                                                                         *)
(* JavaScript numbers are IEEE-754 binary floating point, round to nearest *)
(* even.  They are modelled as such with a Precision-bit significand       *)
(* (53 in the program); exponents are unbounded here, so overflow to       *)
(* Infinity and underflow do not occur, while Infinity and NaN produced by *)
(* a division by zero do.  There is no negative zero.                      *)
(***************************************************************************)
EXTENDS Integers, Sequences, FiniteSets, TLC

\* Bits of the significand of a number.
Precision == 25

\* Most cards of a distribution.
MaxCards == 2

\* Most callbacks of rejected loads still running when a load starts.
MaxOrphans == 1

----------------------------------------------------------------------------
(* Numbers: <<kind, m, e>>.  kind 0: the finite value m * 2^e, with          *)
(* 2^(Precision-1) <= |m| < 2^Precision, or m = 0 and e = 0.  kind 1:       *)
(* Infinity (m = 1) and -Infinity (m = -1).  kind 2: NaN.                   *)

NaN == <<2, 0, 0>>
Infinity == <<1, 1, 0>>
NegInfinity == <<1, -1, 0>>
Zero == <<0, 0, 0>>

IsNaN(a) == a[1] = 2
IsInf(a) == a[1] = 1
IsFinite(a) == a[1] = 0
IsZero(a) == a[1] = 0 /\ a[2] = 0

Abs(n) == IF n < 0 THEN -n ELSE n
Sgn(n) == IF n < 0 THEN -1 ELSE IF n > 0 THEN 1 ELSE 0

RECURSIVE BitLen(_)
BitLen(a) == IF a = 0 THEN 0 ELSE 1 + BitLen(a \div 2)

\* n * 2^e rounded to the nearest number, ties to even.
FRound(n, e) ==
  IF n = 0 THEN Zero
  ELSE LET a == Abs(n)
           s == Sgn(n)
           b == BitLen(a)
       IN IF b <= Precision
          THEN <<0, s * a * 2^(Precision - b), e - (Precision - b)>>
          ELSE LET sh == b - Precision
                   q == a \div 2^sh
                   r == a % 2^sh
                   half == 2^(sh - 1)
                   q1 == IF r > half \/ (r = half /\ q % 2 = 1) THEN q + 1 ELSE q
               IN IF q1 = 2^Precision
                  THEN <<0, s * 2^(Precision - 1), e + sh + 1>>
                  ELSE <<0, s * q1, e + sh>>

\* The number nearest to the integer n (|n| < 2^31).
FInt(n) == FRound(n, 0)

FNeg(a) == <<a[1], -a[2], a[3]>>
FAbs(a) == <<a[1], Abs(a[2]), a[3]>>

\* a * b for significands a, b < 2^Precision, as <<hi, lo>> with
\* a * b = hi * 2^Precision + lo, by halves of h bits so that no partial
\* product leaves the integers.
WideProduct(a, b) ==
  LET h == (Precision + 1) \div 2
      g == 2 * h - Precision
      B == 2^h
      a1 == a \div B
      a0 == a % B
      b1 == b \div B
      b0 == b % B
      low == a0 * b0
      t1 == a1 * b0 + a0 * b1 + low \div B
      t2 == a1 * b1 + t1 \div B
      d1 == t1 % B
      d0 == low % B
  IN <<t2 * 2^g + d1 \div 2^(h - g), (d1 % 2^(h - g)) * B + d0>>

FMul(a, b) ==
  IF IsNaN(a) \/ IsNaN(b) THEN NaN
  ELSE IF IsInf(a) \/ IsInf(b)
       THEN IF IsZero(a) \/ IsZero(b) THEN NaN
            ELSE <<1, Sgn(a[2]) * Sgn(b[2]), 0>>
  ELSE IF IsZero(a) \/ IsZero(b) THEN Zero
  ELSE LET w == WideProduct(Abs(a[2]), Abs(b[2]))
           s == Sgn(a[2]) * Sgn(b[2])
           \* 4 * hi, the two top bits of lo, and a sticky bit for the rest
           top == 4 * w[1] + w[2] \div 2^(Precision - 2)
           sticky == IF w[2] % 2^(Precision - 2) = 0 THEN 0 ELSE 1
       IN FRound(s * (2 * top + sticky), a[3] + b[3] + Precision - 3)

FAdd(a, b) ==
  IF IsNaN(a) \/ IsNaN(b) THEN NaN
  ELSE IF IsInf(a) /\ IsInf(b) THEN (IF a = b THEN a ELSE NaN)
  ELSE IF IsInf(a) THEN a
  ELSE IF IsInf(b) THEN b
  ELSE IF IsZero(a) THEN b
  ELSE IF IsZero(b) THEN a
  ELSE LET hi == IF a[3] >= b[3] THEN a ELSE b
           lo == IF a[3] >= b[3] THEN b ELSE a
           d == hi[3] - lo[3]
       IN IF d <= 2 THEN FRound(hi[2] * 2^d + lo[2], lo[3])
          \* beyond Precision + 1 bits apart lo is under a quarter of hi's unit
          ELSE IF d > Precision + 1 THEN hi
          ELSE \* two guard bits and a sticky bit: |lo| < |hi| / 4 here
               LET lo2 == Abs(lo[2]) \div 2^(d - 2)
                   st == IF Abs(lo[2]) % 2^(d - 2) = 0 THEN 0 ELSE 1
                   hi2 == 4 * Abs(hi[2])
                   n == IF Sgn(hi[2]) = Sgn(lo[2]) THEN hi2 + lo2 ELSE hi2 - lo2 - st
               IN FRound(Sgn(hi[2]) * (2 * n + st), hi[3] - 3)

FSub(a, b) == FAdd(a, FNeg(b))

\* Long division: `steps` more bits of rem / d (rem < d) appended to q; the
\* result is <<quotient, sticky>>.
RECURSIVE LongDiv(_, _, _, _)
LongDiv(rem, d, steps, q) ==
  IF steps = 0 THEN <<q, IF rem = 0 THEN 0 ELSE 1>>
  ELSE IF 2 * rem >= d THEN LongDiv(2 * rem - d, d, steps - 1, 2 * q + 1)
  ELSE LongDiv(2 * rem, d, steps - 1, 2 * q)

FDiv(a, b) ==
  IF IsNaN(a) \/ IsNaN(b) THEN NaN
  ELSE IF IsInf(a) THEN (IF IsInf(b) THEN NaN
                         ELSE <<1, a[2] * (IF b[2] < 0 THEN -1 ELSE 1), 0>>)
  ELSE IF IsInf(b) THEN Zero
  ELSE IF IsZero(b) THEN (IF IsZero(a) THEN NaN ELSE <<1, Sgn(a[2]), 0>>)
  ELSE IF IsZero(a) THEN Zero
  ELSE LET ma == Abs(a[2])
           mb == Abs(b[2])
           qs == LongDiv(ma % mb, mb, Precision + 1, ma \div mb)
       IN FRound(Sgn(a[2]) * Sgn(b[2]) * (2 * qs[1] + qs[2]),
                 a[3] - b[3] - Precision - 2)

\* The number nearest to n / d for integers n, d that are numbers themselves:
\* what a decimal literal such as 0.01 or 1e-6 denotes.
FRatio(n, d) == FDiv(FInt(n), FInt(d))

\* -1, 0, 1 as a < b, a = b, a > b; 2 when either is NaN (every comparison false).
FCmp(a, b) ==
  IF IsNaN(a) \/ IsNaN(b) THEN 2
  ELSE IF a = b THEN 0
  ELSE Sgn(FSub(a, b)[2])

FLt(a, b) == FCmp(a, b) = -1
FGe(a, b) == FCmp(a, b) \in {0, 1}
FLe(a, b) == FCmp(a, b) \in {-1, 0}

\* Math.max of two numbers.
FMax(a, b) == IF IsNaN(a) \/ IsNaN(b) THEN NaN ELSE IF FGe(a, b) THEN a ELSE b

----------------------------------------------------------------------------
(* The analytics engine.                                                   *)

One == FInt(1)
Hundred == FInt(100)
Half == FRatio(1, 2)

\* cards.reduce((sum, card) => sum + Number(card.probability), 0)
RECURSIVE SumProbability(_, _, _)
SumProbability(cards, i, sum) ==
  IF i > Len(cards) THEN sum
  ELSE SumProbability(cards, i + 1, FAdd(sum, cards[i].probability))

\* A faulty normalizer, for comparison: it always divides by the sum, ignoring
\* the two tolerance windows.
AlwaysDivideScale(cards) == FDiv(One, SumProbability(cards, 1, Zero))

probabilityScale(cards) ==
  LET rawSum == SumProbability(cards, 1, Zero)
  IN IF FLt(FAbs(FSub(rawSum, One)), FRatio(1, 1000000)) THEN One
     ELSE IF FLt(FAbs(FSub(rawSum, Hundred)), FRatio(1, 100)) THEN FRatio(1, 100)
     ELSE FDiv(One, rawSum)

\* The CLI's inline probScale (its percentage branch is written 1 / 100).
cliProbScale(cards) ==
  LET rawProbSum == SumProbability(cards, 1, Zero)
  IN IF FLt(FAbs(FSub(rawProbSum, One)), FRatio(1, 1000000)) THEN One
     ELSE IF FLt(FAbs(FSub(rawProbSum, Hundred)), FRatio(1, 100)) THEN FDiv(One, Hundred)
     ELSE FDiv(One, rawProbSum)

\* [...cards].sort((a, b) => Number(a.fmv) - Number(b.fmv)): a stable sort;
\* a goes before b when the comparator's result is negative.
RECURSIVE InsertByFmv(_, _)
InsertByFmv(card, sorted) ==
  IF sorted = <<>> THEN <<card>>
  ELSE IF FLt(FSub(card.fmv, Head(sorted).fmv), Zero) THEN <<card>> \o sorted
  ELSE <<Head(sorted)>> \o InsertByFmv(card, Tail(sorted))

RECURSIVE SortByFmv(_)
SortByFmv(cards) ==
  IF cards = <<>> THEN <<>>
  ELSE InsertByFmv(cards[Len(cards)], SortByFmv(SubSeq(cards, 1, Len(cards) - 1)))

\* cards.reduce((sum, card) => sum + (probability * scale) * fmv, 0)
RECURSIVE SumExpected(_, _, _, _)
SumExpected(cards, scale, i, sum) ==
  IF i > Len(cards) THEN sum
  ELSE SumExpected(cards, scale, i + 1,
                   FAdd(sum, FMul(FMul(cards[i].probability, scale), cards[i].fmv)))

\* The median loop: the fmv of the first card of the sorted walk at which the
\* running total reaches 0.5, else the initial 0.
RECURSIVE MedianWalk(_, _, _, _)
\* A faulty median step, for comparison: it stops only when the running total
\* exceeds 0.5.
StrictMedianStep(sorted, scale, i, cumulative) ==
  IF FLt(Half, cumulative) THEN sorted[i].fmv
  ELSE MedianWalk(sorted, scale, i + 1, cumulative)

MedianStep(sorted, scale, i, cumulative) ==
  IF FGe(cumulative, Half) THEN sorted[i].fmv
  ELSE MedianWalk(sorted, scale, i + 1, cumulative)

MedianWalk(sorted, scale, i, cumulative) ==
  IF i > Len(sorted) THEN Zero
  ELSE MedianStep(sorted, scale, i, FAdd(cumulative, FMul(sorted[i].probability, scale)))

\* cards.reduce((sum, card) => fmv >= costOfPack ? sum + probability * scale : sum, 0)
RECURSIVE SumOver(_, _, _, _, _)
SumOver(cards, scale, costOfPack, i, sum) ==
  IF i > Len(cards) THEN sum
  ELSE SumOver(cards, scale, costOfPack, i + 1,
               IF FGe(cards[i].fmv, costOfPack)
               THEN FAdd(sum, FMul(cards[i].probability, scale))
               ELSE sum)

\* The return statement of computeMetrics, from the values computed before it.
MetricsRecord(costOfPack, scale, expectedValue, medianValue, oddsOverCost, profit) ==
  [expectedValue |-> expectedValue,
   medianValue |-> medianValue,
   oddsOverCost |-> oddsOverCost,
   costOfPack |-> costOfPack,
   profit |-> profit,
   evPercent |-> FMul(FDiv(expectedValue, costOfPack), Hundred),
   profitPercent |-> FMul(FDiv(profit, costOfPack), Hundred),
   medianPercent |-> FMul(FDiv(FSub(medianValue, costOfPack), costOfPack), Hundred),
   probScale |-> scale]

\* computeMetrics once expectedValue is known: profit = expectedValue - costOfPack.
MetricsOf(cards, costOfPack, scale, expectedValue) ==
  MetricsRecord(costOfPack, scale, expectedValue,
                MedianWalk(SortByFmv(cards), scale, 1, Zero),
                FMul(SumOver(cards, scale, costOfPack, 1, Zero), Hundred),
                FSub(expectedValue, costOfPack))

\* computeMetrics once scale is known.
MetricsAtScale(cards, costOfPack, scale) ==
  MetricsOf(cards, costOfPack, scale, SumExpected(cards, scale, 1, Zero))

\* costOfPack = Number(priceUsd); scale = probabilityScale(cards)
computeMetrics(cards, priceUsd) == MetricsAtScale(cards, priceUsd, probabilityScale(cards))

\* sorted.reduce((sum, card) => sum + Number(card.probability) * scale, 0)
RECURSIVE SumScaled(_, _, _, _)
SumScaled(cards, scale, i, sum) ==
  IF i > Len(cards) THEN sum
  ELSE SumScaled(cards, scale, i + 1, FAdd(sum, FMul(cards[i].probability, scale)))

\* One point of the curve, for the floored value of a card and the tail before it.
CurvePoint(value, priceUsd, tailProb) ==
  [x |-> value,
   y |-> FMul(tailProb, Hundred),
   profitPct |-> FMul(FDiv(FSub(value, priceUsd), priceUsd), Hundred)]

\* sorted.map(card => ...), tailProb decremented after each point.
RECURSIVE CurveFrom(_, _, _, _, _)
CurveFrom(sorted, priceUsd, scale, i, tailProb) ==
  IF i > Len(sorted) THEN <<>>
  ELSE <<CurvePoint(FMax(sorted[i].fmv, FRatio(1, 100)), priceUsd, tailProb)>>
       \o CurveFrom(sorted, priceUsd, scale, i + 1,
                    FSub(tailProb, FMul(sorted[i].probability, scale)))

\* The curve of cards already sorted.
CurveOfSorted(sorted, priceUsd, scale) ==
  CurveFrom(sorted, priceUsd, scale, 1, SumScaled(sorted, scale, 1, Zero))

buildProfitCurve(cards, priceUsd, scale) ==
  CurveOfSorted(SortByFmv(cards), priceUsd, scale)

\* The computation of the CLI's calculateExpectedValue, from the fetched
\* cards and price to the record it returns (and prints).
CliRecord(tier, costOfPack, expectedCardValue, medianCardValue, oddsOverCost, expectedProfit) ==
  [tier |-> tier,
   expectedCardValue |-> expectedCardValue,
   medianCardValue |-> medianCardValue,
   costOfPack |-> costOfPack,
   expectedProfit |-> expectedProfit,
   evPercent |-> FMul(FDiv(expectedCardValue, costOfPack), Hundred),
   profitPercent |-> FMul(FDiv(expectedProfit, costOfPack), Hundred),
   oddsOverCostPercent |-> FMul(oddsOverCost, Hundred)]

CliOf(tier, cards, costOfPack, probScale, expectedCardValue) ==
  CliRecord(tier, costOfPack, expectedCardValue,
            MedianWalk(SortByFmv(cards), probScale, 1, Zero),
            SumOver(cards, probScale, costOfPack, 1, Zero),
            FSub(expectedCardValue, costOfPack))

CliAtScale(tier, cards, costOfPack, probScale) ==
  CliOf(tier, cards, costOfPack, probScale, SumExpected(cards, probScale, 1, Zero))

calculateExpectedValue(tier, cards, costOfPack) ==
  CliAtScale(tier, cards, costOfPack, cliProbScale(cards))

----------------------------------------------------------------------------
(* Inputs of the engine.                                                   *)

FmvSet == {Zero, One, FInt(10)}
\* 0.5 + 2^-20 and 100 + 2^-7 bring sums inside the tolerance windows of
\* probabilityScale (within 1e-6 of 1, within 1e-2 of 100) without being 1 or 100.
ProbabilitySet ==
  {Zero, Half, FRound(2^19 + 1, -20), FInt(49), FRound(12801, -7)}
PriceSet == {FInt(-1), Zero, One}
FactorSet == {FInt(2), FInt(49), Hundred}

CardSet == [fmv : FmvSet, probability : ProbabilitySet]
Distributions == UNION {[1..n -> CardSet] : n \in 1..MaxCards}

\* The distribution with every probability multiplied by k.
ScaleProbabilities(cards, k) ==
  [i \in 1..Len(cards) |->
     [fmv |-> cards[i].fmv, probability |-> FMul(cards[i].probability, k)]]

----------------------------------------------------------------------------
VARIABLES
  \* the engine on one input
  cards,      \* the distribution of one tier
  priceUsd,   \* the tier's price
  phase,      \* how far the engine has got on this input
  metrics,    \* <<>> or <<the Metrics computeMetrics returned>>
  curve,      \* <<>> or <<the curve buildProfitCurve returned>>
  cliOut,     \* <<>> or <<the record calculateExpectedValue returned>>
  rescaled,   \* <<>> or <<the factor, and the metrics and curve of the scaled cards>>
  \* the interactive App
  tiers,      \* useState([]): the tier results shown
  status,     \* useState('Waiting to load...')
  error,      \* useState('')
  loading,    \* useState(false)
  loadPc,     \* where loadData is: "unmounted", "idle", "price", "priceJson", "cards"
  settled,    \* how loadData's try block ended: "none", "resolved", "rejected"
  priceData,  \* the tiers of the price response, in Object.keys order
  tierPc,     \* per tier callback: "fetch", "json", "done", "failed"
  tierOut,    \* per tier callback: <<>> or <<the result it returned>>
  orphanFetch, \* callbacks of a rejected Promise.all still awaiting their fetch
  orphanJson   \* callbacks of a rejected Promise.all still awaiting their body

engineVars == <<cards, priceUsd, phase, metrics, curve, cliOut, rescaled>>
loadVars == <<tiers, status, error, loading, loadPc, settled, priceData, tierPc,
              tierOut, orphanFetch, orphanJson>>
vars == <<engineVars, loadVars>>

\* App before its first effect has run.
AppInitial ==
  /\ tiers = <<>>
  /\ status = "Waiting to load"
  /\ error = ""
  /\ loading = FALSE
  /\ loadPc = "unmounted"
  /\ settled = "none"
  /\ priceData = <<>>
  /\ tierPc = <<>>
  /\ tierOut = <<>>
  /\ orphanFetch = 0
  /\ orphanJson = 0

Init ==
  /\ cards \in Distributions
  /\ priceUsd \in PriceSet
  /\ phase = "input"
  /\ metrics = <<>>
  /\ curve = <<>>
  /\ cliOut = <<>>
  /\ rescaled = <<>>
  /\ AppInitial

\* loadData, line 284: computeMetrics(cards, priceData.data[tierName].priceUsd)
ComputeMetrics ==
  /\ phase = "input"
  /\ metrics' = <<computeMetrics(cards, priceUsd)>>
  /\ phase' = "metrics"
  /\ UNCHANGED <<cards, priceUsd, curve, cliOut, rescaled>>
  /\ UNCHANGED loadVars

\* loadData, line 285: buildProfitCurve(cards, metrics.costOfPack, metrics.probScale)
BuildCurve ==
  /\ phase = "metrics"
  /\ curve' = <<buildProfitCurve(cards, metrics[1].costOfPack, metrics[1].probScale)>>
  /\ phase' = "curve"
  /\ UNCHANGED <<cards, priceUsd, metrics, cliOut, rescaled>>
  /\ UNCHANGED loadVars

\* The CLI on the same cards and price.
CliCalculate ==
  /\ phase = "curve"
  /\ cliOut' = <<calculateExpectedValue("Starter", cards, priceUsd)>>
  /\ phase' = "cli"
  /\ UNCHANGED <<cards, priceUsd, metrics, curve, rescaled>>
  /\ UNCHANGED loadVars

RescaledRecord(k, scaled, m) ==
  [factor |-> k, cards |-> scaled, metrics |-> m,
   curve |-> buildProfitCurve(scaled, m.costOfPack, m.probScale)]

RescaledOf(k, scaled) == RescaledRecord(k, scaled, computeMetrics(scaled, priceUsd))

\* The engine on the same cards in another encoding of the probabilities.
ComputeRescaled ==
  /\ phase = "cli"
  /\ SumProbability(cards, 1, Zero) = One
  /\ \E k \in FactorSet : rescaled' = <<RescaledOf(k, ScaleProbabilities(cards, k))>>
  /\ phase' = "done"
  /\ UNCHANGED <<cards, priceUsd, metrics, curve, cliOut>>
  /\ UNCHANGED loadVars

Next == ComputeMetrics \/ BuildCurve \/ CliCalculate \/ ComputeRescaled

Spec == Init /\ [][Next]_vars

----------------------------------------------------------------------------
(* Properties of the engine.                                               *)

\* a === b in the program: NaN equals nothing.
FEq(a, b) == FCmp(a, b) = 0

RawSum == SumProbability(cards, 1, Zero)

MetricsFinite(m) ==
  /\ IsFinite(m.expectedValue) /\ IsFinite(m.medianValue) /\ IsFinite(m.oddsOverCost)
  /\ IsFinite(m.costOfPack) /\ IsFinite(m.profit) /\ IsFinite(m.evPercent)
  /\ IsFinite(m.profitPercent) /\ IsFinite(m.medianPercent) /\ IsFinite(m.probScale)

CliFinite(r) ==
  /\ IsFinite(r.expectedCardValue) /\ IsFinite(r.medianCardValue)
  /\ IsFinite(r.costOfPack) /\ IsFinite(r.expectedProfit) /\ IsFinite(r.evPercent)
  /\ IsFinite(r.profitPercent) /\ IsFinite(r.oddsOverCostPercent)

\* C2: a distribution whose raw probabilities are all 0 (rawSum = 0) is
\* reported as a DegenerateDistribution failure: the engine never returns
\* Metrics (nor the CLI a record) with an Infinity or NaN field for it.
C2_DegenerateReported ==
  IsZero(RawSum) =>
    /\ metrics # <<>> => MetricsFinite(metrics[1])
    /\ cliOut # <<>> => CliFinite(cliOut[1])

\* C3: a price <= 0 is rejected before any metric is computed: neither
\* computeMetrics nor the CLI returns a value for it.
C3_InvalidPriceRejected ==
  FLe(priceUsd, Zero) => metrics = <<>> /\ cliOut = <<>>

InUnitWindow(r) == FLt(FAbs(FSub(r, One)), FRatio(1, 1000000))
InPercentWindow(r) == FLt(FAbs(FSub(r, Hundred)), FRatio(1, 100))
PolicyScale(r) ==
  IF InUnitWindow(r) THEN One
  ELSE IF InPercentWindow(r) THEN FRatio(1, 100)
  ELSE FDiv(One, r)

ScaledSum == SumScaled(cards, metrics[1].probScale, 1, Zero)

\* (n + 1) units in the last place of 1, for n cards.
SumTolerance == FRound(Len(cards) + 1, 1 - Precision)

Cumulative(k) == SumScaled(SubSeq(SortByFmv(cards), 1, k), metrics[1].probScale, 1, Zero)

Reaching == {k \in 1..Len(cards) : FGe(Cumulative(k), Half)}

MedianIsFirstReaching ==
  \E k \in Reaching :
    /\ k = 1 \/ FLt(Cumulative(k - 1), Half)
    /\ metrics[1].medianValue = SortByFmv(cards)[k].fmv

\* C5 as claimed: for positive rawSum the median is the fmv of the first card,
\* in ascending order, at which the cumulative scaled probability reaches 0.5,
\* and it is 0 only when no prefix reaches 0.5.
C5_MedianZeroOnlyUnreached ==
  (metrics # <<>> /\ FLt(Zero, RawSum)) =>
    /\ MedianIsFirstReaching
    /\ IsZero(metrics[1].medianValue) => Reaching = {}

\* C5 as amended: the median is 0 only when no prefix reaches 0.5 or the
\* first card to reach it has fmv 0.
C5_Median ==
  (metrics # <<>> /\ FLt(Zero, RawSum)) =>
    /\ MedianIsFirstReaching
    /\ IsZero(metrics[1].medianValue) =>
         \/ Reaching = {}
         \/ \E k \in Reaching : /\ k = 1 \/ FLt(Cumulative(k - 1), Half)
                                /\ IsZero(SortByFmv(cards)[k].fmv)

\* The median is a card after the first one, of positive value.
C5_Witness ==
  /\ metrics # <<>>
  /\ FLt(Zero, RawSum)
  /\ 1 \notin Reaching
  /\ Reaching # {}
  /\ FLt(Zero, metrics[1].medianValue)

\* C6: every curve point's y is the percent chance of a card worth at least
\* its x: 100 * the scaled probabilities of all cards with fmv >= x.
C6_TailIsChanceAtLeastX ==
  curve # <<>> =>
    \A i \in 1..Len(curve[1]) :
      FEq(curve[1][i].y,
          FMul(SumOver(cards, metrics[1].probScale, curve[1][i].x, 1, Zero), Hundred))

\* C7: the curve has one point per card, ascending x, non-increasing y, a
\* first y of 100 * the total scaled probability and a last y of 100 * the
\* scaled probability of the last card in sorted order.
C7_CurveShape ==
  curve # <<>> =>
    LET c == curve[1]
        n == Len(cards)
        sorted == SortByFmv(cards)
    IN /\ Len(c) = n
       /\ \A i \in 1..(n - 1) : FLe(c[i].x, c[i + 1].x) /\ FGe(c[i].y, c[i + 1].y)
       /\ FEq(c[1].y, FMul(ScaledSum, Hundred))
       /\ FEq(c[n].y, FMul(FMul(sorted[n].probability, metrics[1].probScale), Hundred))

\* C8: for a positive price every point's profitPct is
\* (fmv - priceUsd) / priceUsd * 100 of its card's own fmv.
C8_ProfitPctFromFmv ==
  (curve # <<>> /\ FLt(Zero, priceUsd)) =>
    \A i \in 1..Len(curve[1]) :
      FEq(curve[1][i].profitPct,
          FMul(FDiv(FSub(SortByFmv(cards)[i].fmv, priceUsd), priceUsd), Hundred))

SameNumber(a, b) == a = b

\* C9: for probabilities summing to 1, multiplying every probability by a
\* positive constant changes none of the metrics but probScale, nor the curve.
C9_EncodingIndependent ==
  rescaled # <<>> =>
    LET a == metrics[1]
        b == rescaled[1].metrics
    IN /\ SameNumber(a.expectedValue, b.expectedValue)
       /\ SameNumber(a.medianValue, b.medianValue)
       /\ SameNumber(a.oddsOverCost, b.oddsOverCost)
       /\ SameNumber(a.profit, b.profit)
       /\ SameNumber(a.evPercent, b.evPercent)
       /\ SameNumber(a.profitPercent, b.profitPercent)
       /\ SameNumber(a.medianPercent, b.medianPercent)
       /\ curve[1] = rescaled[1].curve

----------------------------------------------------------------------------
(* The interactive loader: App.loadData, and the callbacks it awaits.      *)

TierNames == {"Starter", "Premium"}

\* priceData.data of a price response: its tiers in Object.keys order, each
\* with its price.
PriceBodies ==
  LET keyLists == {<<>>} \cup {<<t>> : t \in TierNames}
                  \cup {<<t, u>> : <<t, u>> \in {x \in TierNames \X TierNames : x[1] # x[2]}}
  IN {[i \in 1..Len(k) |-> [tierName |-> k[i], priceUsd |-> One]] : k \in keyLists}

\* payload.data || [] of a card response.
CardBodies ==
  {<<>>, <<[fmv |-> One, probability |-> Half], [fmv |-> FInt(10), probability |-> Half]>>}

\* The message of what a rejected fetch or an unreadable body throws; it may be empty.
ThrownMessages == {"Failed to fetch", ""}

CardsMessage(tierName) ==
  IF tierName = "Starter" THEN "Failed to fetch cards for Starter"
  ELSE "Failed to fetch cards for Premium"

\* loadData up to its first await.
Start ==
  /\ orphanFetch + orphanJson + Cardinality(TierNames) - 1 <= MaxOrphans
  /\ loading' = TRUE
  /\ error' = ""
  /\ status' = "Fetching current prices"
  /\ loadPc' = "price"
  /\ settled' = "none"
  /\ priceData' = <<>>
  /\ tierPc' = <<>>
  /\ tierOut' = <<>>
  /\ UNCHANGED <<tiers, orphanFetch, orphanJson>>

\* useEffect(() => { loadData(); }, [loadData])
Mount ==
  /\ loadPc = "unmounted"
  /\ Start
  /\ UNCHANGED engineVars

\* <button onClick={loadData} disabled={loading}>
Click ==
  /\ loadPc # "unmounted"
  /\ ~loading
  /\ Start
  /\ UNCHANGED engineVars

\* A faulty catch block, for comparison: it shows the message as thrown, even
\* when it is empty.
CatchWithoutFallback(message) ==
  /\ error' = message
  /\ status' = "Error loading data"

\* The catch block.
Catch(message) ==
  /\ error' = (IF message = "" THEN "Unable to load data right now." ELSE message)
  /\ status' = "Error loading data"

\* The try block throws: catch, then finally.
Rejected(message) ==
  /\ Catch(message)
  /\ loading' = FALSE
  /\ settled' = "rejected"
  /\ loadPc' = "idle"
  /\ UNCHANGED tiers

\* Promise.all resolves: the rest of the try block, then finally.
Resolved(tierResults) ==
  /\ tiers' = tierResults
  /\ status' = "Updated"
  /\ loading' = FALSE
  /\ settled' = "resolved"
  /\ loadPc' = "idle"
  /\ UNCHANGED error

\* await fetch(PRICE_URL), and the check of priceResponse.ok
PriceSettles ==
  /\ loadPc = "price"
  /\ \/ /\ loadPc' = "priceJson"
        /\ UNCHANGED <<tiers, status, error, loading, settled>>
     \/ Rejected("Failed to fetch prices")
     \/ \E m \in ThrownMessages : Rejected(m)
  /\ UNCHANGED <<priceData, tierPc, tierOut, orphanFetch, orphanJson>>
  /\ UNCHANGED engineVars

\* await priceResponse.json(), Object.keys, and the start of every tier's callback
PriceJson ==
  /\ loadPc = "priceJson"
  /\ \/ /\ \E m \in ThrownMessages : Rejected(m)
        /\ UNCHANGED <<priceData, tierPc, tierOut>>
     \/ \E body \in PriceBodies :
          /\ priceData' = body
          /\ tierPc' = [i \in 1..Len(body) |-> "fetch"]
          /\ tierOut' = [i \in 1..Len(body) |-> <<>>]
          /\ IF body = <<>>
             THEN Resolved(<<>>)
             ELSE /\ loadPc' = "cards"
                  /\ UNCHANGED <<tiers, status, error, loading, settled>>
  /\ UNCHANGED <<orphanFetch, orphanJson>>
  /\ UNCHANGED engineVars

\* return { tierName, cards, metrics, curve }
TierRecord(tierName, body, m) ==
  [tierName |-> tierName,
   cards |-> body,
   metrics |-> m,
   curve |-> buildProfitCurve(body, m.costOfPack, m.probScale)]

\* What the callback of tier i returns for a card list.
TierResult(i, body) ==
  TierRecord(priceData[i].tierName, body, computeMetrics(body, priceData[i].priceUsd))

\* The callback of tier i throws: Promise.all rejects with it, and the other
\* callbacks run on with nothing awaiting them.
CardFailed(i, message) ==
  /\ Rejected(message)
  /\ tierPc' = [tierPc EXCEPT ![i] = "failed"]
  /\ orphanFetch' =
       orphanFetch + Cardinality({j \in DOMAIN tierPc : j # i /\ tierPc[j] = "fetch"})
  /\ orphanJson' =
       orphanJson + Cardinality({j \in DOMAIN tierPc : j # i /\ tierPc[j] = "json"})
  /\ UNCHANGED <<priceData, tierOut>>

\* await fetch(cardUrl), and the check of cardRes.ok
CardSettles(i) ==
  /\ loadPc = "cards"
  /\ i \in DOMAIN tierPc
  /\ tierPc[i] = "fetch"
  /\ \/ /\ tierPc' = [tierPc EXCEPT ![i] = "json"]
        /\ UNCHANGED <<tiers, status, error, loading, loadPc, settled, priceData,
                       tierOut, orphanFetch, orphanJson>>
     \/ CardFailed(i, CardsMessage(priceData[i].tierName))
     \/ \E m \in ThrownMessages : CardFailed(i, m)
  /\ UNCHANGED engineVars

\* The callback of tier i returns: Promise.all resolves with the last of them.
CardReturned(pcs, out) ==
  /\ tierOut' = out
  /\ tierPc' = pcs
  /\ IF \A j \in DOMAIN pcs : pcs[j] = "done"
     THEN Resolved([j \in DOMAIN out |-> out[j][1]])
     ELSE UNCHANGED <<tiers, status, error, loading, loadPc, settled>>
  /\ UNCHANGED <<priceData, orphanFetch, orphanJson>>

\* await cardRes.json(), computeMetrics, buildProfitCurve
CardJson(i) ==
  /\ loadPc = "cards"
  /\ i \in DOMAIN tierPc
  /\ tierPc[i] = "json"
  /\ \/ \E m \in ThrownMessages : CardFailed(i, m)
     \/ \E body \in CardBodies :
          CardReturned([tierPc EXCEPT ![i] = "done"],
                       [tierOut EXCEPT ![i] = <<TierResult(i, body)>>])
  /\ UNCHANGED engineVars

\* A callback of a rejected Promise.all gets its response: it goes on to read
\* the body, or throws, which nothing observes.
OrphanSettles ==
  /\ orphanFetch > 0
  /\ orphanFetch' = orphanFetch - 1
  /\ \/ orphanJson' = orphanJson + 1
     \/ orphanJson' = orphanJson
  /\ UNCHANGED <<tiers, status, error, loading, loadPc, settled, priceData, tierPc, tierOut>>
  /\ UNCHANGED engineVars

\* A callback of a rejected Promise.all returns or throws: nothing observes it.
OrphanReturns ==
  /\ orphanJson > 0
  /\ orphanJson' = orphanJson - 1
  /\ UNCHANGED <<tiers, status, error, loading, loadPc, settled, priceData, tierPc,
                 tierOut, orphanFetch>>
  /\ UNCHANGED engineVars

LoadInit ==
  /\ cards = <<>>
  /\ priceUsd = Zero
  /\ phase = "off"
  /\ metrics = <<>>
  /\ curve = <<>>
  /\ cliOut = <<>>
  /\ rescaled = <<>>
  /\ AppInitial

Tier(i) == CardSettles(i) \/ CardJson(i)

LoadNext ==
  \/ Mount
  \/ Click
  \/ PriceSettles
  \/ PriceJson
  \/ \E i \in 1..Cardinality(TierNames) : Tier(i)
  \/ OrphanSettles
  \/ OrphanReturns

\* The effect runs after the first render, and every fetch and body read
\* settles; a click may never come.
LoadSpec ==
  /\ LoadInit
  /\ [][LoadNext]_vars
  /\ WF_vars(Mount)
  /\ WF_vars(PriceSettles)
  /\ WF_vars(PriceJson)
  /\ WF_vars(Tier(1))
  /\ WF_vars(Tier(2))

----------------------------------------------------------------------------
(* Properties of the loader.                                               *)

\* C1: a tier's failure aborts only that tier: when a load has ended, every
\* tier whose own callback succeeded has its result in tiers.
C1_SiblingsDelivered ==
  (loadPc = "idle" /\ settled # "none") =>
    \A i \in DOMAIN tierPc :
      tierPc[i] = "done" => \E j \in DOMAIN tiers : tiers[j] = tierOut[i][1]

LoadSucceeds ==
  /\ settled' = "resolved"
  /\ error' = ""
  /\ \A i \in DOMAIN tierPc' : tierPc'[i] = "done"
  /\ Len(tiers') = Len(priceData')
  /\ \A i \in DOMAIN tiers' :
       /\ tiers'[i] = tierOut'[i][1]
       /\ tiers'[i].tierName = priceData'[i].tierName

LoadFails ==
  /\ settled' = "rejected"
  /\ error' # ""
  /\ status' = "Error loading data"
  /\ tiers' = tiers

C10_Step ==
  /\ (~loading /\ loading') => (error' = "" /\ tiers' = tiers)
  /\ (loading /\ loading') => (error' = "" /\ tiers' = tiers)
  /\ (loading /\ ~loading') => (LoadSucceeds \/ LoadFails)
  /\ (~loading /\ ~loading') => (error' = error /\ tiers' = tiers)

\* C10: every load starts with loading = true and error = '', ends with
\* loading = false, and at its end either tiers holds one result per tier of
\* the price response, in key order, with error empty, or error is not empty,
\* status is 'Error loading data' and tiers is what it was before the load.
C10_Loader == [][C10_Step]_vars /\ (loading ~> ~loading)

\* A load has failed after an earlier one succeeded: its results are kept.
C10_Witness ==
  /\ ~loading
  /\ settled = "rejected"
  /\ error # ""
  /\ tiers # <<>>

====
